---- MODULE Spec2Model ----
(***************************************************************************)
(* Model of the setlist controller (src/frontend/src/App.tsx, lines        *)
(* 237-1004: the Express handlers of setlist.controller) over the tables   *)
(* it reads and writes: setlists, blocks, setlist_songs, band_members,     *)
(* songs.  One action per handler; a handler runs from request to          *)
(* response in one step (requests are served one after the other here).    *)
(* A handler that writes or emits has a form ...Under(fault) that takes    *)
(* the point at which the store or the socket server throws; the handler   *)
(* itself is that form with no fault.                                      *)
(* For requests served at the same time, reorderSetlistSongs is also       *)
(* modelled step by step (reorderBegin .. reorderRespond), one step per    *)
(* store statement, with the transaction t it opens kept in tx.            *)
(*                                                                         *)
(* The controller uses BandMember, sequelize, Op and UserIntegration       *)
(* without requiring them; the model reads them as the Sequelize models    *)
(* and instance of those names.                                            *)
(* Columns that no handler branches on (description, notes, timestamps)    *)
(* are left out of the rows.                                               *)
(*                                                                         *)
(* The browser side is the setlists slice of the Redux store               *)
(* (src/README.md, lines 318-626): its state, the pending, fulfilled and   *)
(* rejected reducer of each thunk, and the two plain reducers.  A thunk    *)
(* that was dispatched is in flight until its response has been reduced;   *)
(* thunks in flight are served, and their responses reduced, in any order. *)
(***************************************************************************)
EXTENDS Integers, Sequences, FiniteSets, TLC

VARIABLES
  setlists,      \* table setlists: set of rows
  blocks,        \* table blocks: set of rows
  setlistSongs,  \* table setlist_songs: set of rows
  nextUuid,      \* number of uuidv4() ids handed out for setlist_songs rows
  req,           \* the request served last: handler, req.user.id, req.params.id
  res,           \* its response: status, msg, body
  emitted,       \* the socket events emitted while serving it, in order
  tx,            \* per client: its reorder request under way, step by step
  state,         \* the setlists slice of the browser's Redux store
  inflight       \* per client slot: the thunk it has dispatched, its response

vars == <<setlists, blocks, setlistSongs, nextUuid, req, res, emitted, tx,
          state, inflight>>
client == <<state, inflight>>
db == <<setlists, blocks, setlistSongs, nextUuid>>

(***************************************************************************)
(* Bounds of the model.                                                    *)
(***************************************************************************)
MaxEntries == 2   \* setlist_songs rows created in one behaviour; a request
                  \* carries a position in 1..MaxEntries

Null == "null"

(***************************************************************************)
(* Rows that the handlers only read: users, bands, band members, songs.    *)
(***************************************************************************)
Users == {"u1", "u2", "u3", "u4"}
BandMember ==
  { [band_id |-> "b1", user_id |-> "u2", role |-> "admin"],
    [band_id |-> "b1", user_id |-> "u3", role |-> "member"] }
Song == {"g1", "g2"}
GhostSong == "g0"            \* a well-formed id that names no song
BadId == "not-a-uuid"        \* a value express-validator's isUUID() rejects
SetlistIds == {"s1", "s2"}
EntryIds == 1..MaxEntries
GhostEntry == MaxEntries + 1 \* an id that names no setlist_songs row
Positions == 1..MaxEntries

InitSetlists ==
  { [id |-> "s1", name |-> "n0", band_id |-> "b1", created_by |-> "u1",
     is_public |-> FALSE],
    [id |-> "s2", name |-> "n0", band_id |-> Null, created_by |-> "u1",
     is_public |-> FALSE] }
InitBlocks ==
  { [id |-> "k1", setlist_id |-> "s1", position |-> 2],
    [id |-> "k2", setlist_id |-> "s1", position |-> 1] }
BlockIds == {b.id : b \in InitBlocks}

\* clients that may have a reorder request under way at the same time
Clients == {"c1", "c2"}
\* pc: where the handler stands; songs: the request's list; at: the items
\* the loop has passed; held: what the open transaction has written
Idle == [pc |-> "idle", user |-> Null, id |-> Null, songs |-> <<>>,
         at |-> 0, held |-> <<>>, status |-> 0]

\* const initialState: SetlistsState; a null currentSetlist is <<>>
initialState ==
  [setlists |-> <<>>, currentSetlist |-> <<>>, setlistSongs |-> <<>>,
   isLoading |-> FALSE, error |-> Null]
\* the argument of a thunk, with the fields of all of them
NoArg ==
  [id |-> Null, song_id |-> Null, position |-> 0, block_id |-> Null,
   songs |-> <<>>, name |-> Null]
\* pc: idle, pending (dispatched), serving (at the server), served (the
\* response is on its way back), failed (no response will come)
NoRequest ==
  [pc |-> "idle", thunk |-> "none", arg |-> NoArg, status |-> 0, msg |-> "",
   body |-> <<>>]

Init ==
  /\ state = initialState
  /\ inflight = [c \in Clients |-> NoRequest]
  /\ tx = [c \in Clients |-> Idle]
  /\ setlists = InitSetlists
  /\ blocks = InitBlocks
  /\ setlistSongs = {}
  /\ nextUuid = 0
  /\ req = [op |-> "none", user |-> Null, id |-> Null]
  /\ res = [status |-> 0, msg |-> "", body |-> <<>>]
  /\ emitted = <<>>

(***************************************************************************)
(* Store reads.                                                            *)
(***************************************************************************)
findByPk(table, id) == {r \in table : r.id = id}

findAll_unordered(table, id) ==
  LET rows == {r \in table : r.setlist_id = id}
      n == Cardinality(rows)
  IN { s \in [1..n -> rows] : \A i, j \in 1..n : i # j => s[i] # s[j] }

\* SetlistSong.findAll({where: {setlist_id}, order: [['position','ASC']]}):
\* every arrangement of the rows that ascends by position (rows with equal
\* positions come in an order the store chooses).
findAllByPosition(table, id) ==
  LET rows == {r \in table : r.setlist_id = id}
      n == Cardinality(rows)
  IN { s \in [1..n -> rows] :
         /\ \A i, j \in 1..n : i # j => s[i] # s[j]
         /\ \A i, j \in 1..n : i < j => s[i].position <= s[j].position }

songExists_any(song_id) == TRUE

\* Song.findByPk(song_id) finds a row
songExists(song_id) == song_id \in Song

\* Block.findByPk(block_id) finds a row and block.setlist_id === req.params.id
blockOfSetlist(block_id, id) ==
  \E b \in findByPk(blocks, block_id) : b.setlist_id = id

destroyRow_ofSong(table, row) ==
  {r \in table : ~(r.setlist_id = row.setlist_id /\ r.song_id = row.song_id)}

destroyRow_closingGap(table, row) ==
  { IF r.setlist_id = row.setlist_id /\ r.position > row.position
    THEN [r EXCEPT !.position = @ - 1] ELSE r : r \in table \ {row} }

\* instance.destroy(): the rows that remain
destroyRow(table, row) == table \ {row}

destroyWhere_none(table, setlistId) == table

\* Model.destroy({where: {setlist_id}}): the rows that remain
destroyWhere(table, setlistId) == {r \in table : r.setlist_id # setlistId}

isUserBandMember_any(userId, bandId) == bandId # Null

isUserBandMember(userId, bandId) ==
  IF bandId = Null THEN FALSE
  ELSE \E m \in BandMember : m.band_id = bandId /\ m.user_id = userId

\* BandMember.findOne({where: {band_id, user_id, role: 'admin'}})
isBandAdmin(userId, bandId) ==
  \E m \in BandMember :
    m.band_id = bandId /\ m.user_id = userId /\ m.role = "admin"

(***************************************************************************)
(* The permission checks of the handlers.                                  *)
(***************************************************************************)
\* getSetlistSongs, exportSetlistToPDF, exportSetlistToSpotify
hasAccess(setlist, userId) ==
  \/ setlist.created_by = userId
  \/ setlist.is_public
  \/ isUserBandMember(userId, setlist.band_id)

mayUpdateSetlist_anyMember(setlist, userId) ==
  \/ setlist.created_by = userId
  \/ isUserBandMember(userId, setlist.band_id)

\* updateSetlist, deleteSetlist: the creator, or an admin of the band
mayUpdateSetlist(setlist, userId) ==
  IF setlist.created_by # userId
  THEN IF setlist.band_id # Null THEN isBandAdmin(userId, setlist.band_id)
       ELSE FALSE
  ELSE TRUE

mayUpdateSongs_orPublic(setlist, userId) ==
  \/ setlist.created_by = userId
  \/ setlist.is_public
  \/ isUserBandMember(userId, setlist.band_id)

\* addSongToSetlist, removeSongFromSetlist, reorderSetlistSongs,
\* generateShareLink: the creator, or any member of the band
mayUpdateSongs(setlist, userId) ==
  ~(setlist.created_by # userId /\ ~isUserBandMember(userId, setlist.band_id))

(***************************************************************************)
(* Responses and socket events.                                            *)
(***************************************************************************)
\* the response goes back to the thunk whose request is being served
answered(status, msg, body) ==
  [c \in Clients |->
     IF inflight[c].pc = "serving"
     THEN [inflight[c] EXCEPT !.pc = "served", !.status = status, !.msg = msg,
                              !.body = body]
     ELSE inflight[c]]

Respond(op, userId, id, status, msg, body, events) ==
  /\ req' = [op |-> op, user |-> userId, id |-> id]
  /\ res' = [status |-> status, msg |-> msg, body |-> body]
  /\ emitted' = events
  /\ state' = state
  /\ inflight' = answered(status, msg, body)

\* the response of a handler served in one step
Reply(op, userId, id, status, msg, body, events) ==
  /\ Respond(op, userId, id, status, msg, body, events)
  /\ UNCHANGED tx

\* if (band_id) io.to(`band:...`).emit(event, payload);
\* io.to(`user:...`).emit(event, payload)
emit(bandId, userId, event, id, payload) ==
  (IF bandId # Null
   THEN << [room |-> "band", key |-> bandId, event |-> event, id |-> id,
            payload |-> payload] >>
   ELSE << >>)
  \o << [room |-> "user", key |-> userId, event |-> event, id |-> id,
          payload |-> payload] >>

(***************************************************************************)
(* Faults: the at-th store write of the handler throws, or its at-th       *)
(* io.to(...).emit(...) throws.  Every handler body is one try block whose *)
(* catch answers 500 'Server Error'.                                       *)
(***************************************************************************)
NoFault == [kind |-> "none", at |-> 0]
Faults ==
  {NoFault} \cup [kind : {"write"}, at : 1..3] \cup [kind : {"emit"}, at : 1..2]
EmitFaults == {f \in Faults : f.kind # "write"}

\* the fault as it strikes a handler that makes so many writes and emits
effective(fault, writes, emits) ==
  IF \/ fault.kind = "write" /\ fault.at <= writes
     \/ fault.kind = "emit" /\ fault.at <= emits
  THEN fault ELSE NoFault

\* the k-th write was reached and did not throw
wrote(f, k) == ~(f.kind = "write" /\ f.at <= k)

notify_early(f, events) == events

\* the events that went out: the emits come after the last write and stop
\* at the one that throws
notify(f, events) ==
  IF f.kind = "write" THEN <<>>
  ELSE IF f.kind = "emit" THEN SubSeq(events, 1, f.at - 1)
  ELSE events

\* the end of the try block: the emits, then the response; the catch when
\* something threw
Answer(op, userId, id, status, msg, body, events, f) ==
  IF f = NoFault
  THEN Reply(op, userId, id, status, msg, body, events)
  ELSE Reply(op, userId, id, 500, "Server Error", <<>>, notify(f, events))

(***************************************************************************)
(* GET /api/setlists                                                       *)
(***************************************************************************)
\* Setlist.findAll({..., order: [['updated_at', 'DESC']]}): the timestamps
\* are not in the rows, so the rows come in any order
findAllByUpdatedAt(rows) ==
  LET n == Cardinality(rows)
  IN {s \in [1..n -> rows] : \A i, j \in 1..n : i # j => s[i] # s[j]}

getAllSetlists(userId) ==
  /\ UNCHANGED db
  /\ \E body \in findAllByUpdatedAt(
                  {r \in setlists : \/ r.created_by = userId
                                    \/ isUserBandMember(userId, r.band_id)}) :
       Reply("getAllSetlists", userId, Null, 200, "", body, <<>>)

(***************************************************************************)
(* GET /api/setlists/:id                                                   *)
(***************************************************************************)
getSetlistById(userId, id) ==
  /\ UNCHANGED db
  /\ LET found == findByPk(setlists, id) IN
     IF found = {}
     THEN Reply("getSetlistById", userId, id, 404, "Setlist not found", <<>>, <<>>)
     ELSE LET setlist == CHOOSE r \in found : TRUE IN
       IF setlist.created_by = userId \/ setlist.is_public
       THEN Reply("getSetlistById", userId, id, 200, "", <<setlist>>, <<>>)
       ELSE IF setlist.band_id = Null
       \* setlist.band is null: reading .members throws, the catch answers
       THEN Reply("getSetlistById", userId, id, 500, "Server Error", <<>>, <<>>)
       ELSE IF \E m \in BandMember :
                 m.band_id = setlist.band_id /\ m.user_id = userId
       THEN Reply("getSetlistById", userId, id, 200, "", <<setlist>>, <<>>)
       ELSE Reply("getSetlistById", userId, id, 403, "Access denied", <<>>, <<>>)

(***************************************************************************)
(* POST /api/setlists                                                      *)
(* name: Null when the body has none (the route's validator rejects it);   *)
(* band_id, is_public: Null when the body has none.                        *)
(***************************************************************************)
Band == {"b1"}
GhostBand == "b0"            \* an id that names no band
NewSetlistId == "s3"         \* what uuidv4() returns: an id no row has

createSetlistUnder(userId, name, band_id, is_public, fault) ==
  LET deny(status, msg) ==
        /\ UNCHANGED db
        /\ Reply("createSetlist", userId, Null, status, msg, <<>>, <<>>)
  IN
  IF name = Null THEN deny(400, "errors")
  ELSE IF band_id # Null /\ band_id \notin Band THEN deny(404, "Band not found")
  ELSE IF band_id # Null /\ ~isUserBandMember(userId, band_id)
  THEN deny(403, "You must be a member of the band to create a setlist")
  ELSE LET newSetlist ==
             [id |-> NewSetlistId, name |-> name, band_id |-> band_id,
              created_by |-> userId,
              is_public |-> IF is_public # Null THEN (is_public = "true") ELSE FALSE]
           events == emit(band_id, userId, "setlist:created", NewSetlistId, newSetlist)
           f == effective(fault, 1, Len(events))
       IN /\ findByPk(setlists, NewSetlistId) = {}
          /\ setlists' = IF wrote(f, 1) THEN setlists \cup {newSetlist} ELSE setlists
          /\ UNCHANGED <<blocks, setlistSongs, nextUuid>>
          /\ Answer("createSetlist", userId, NewSetlistId, 201, "", <<newSetlist>>,
                    events, f)

createSetlist(userId, name, band_id, is_public) ==
  createSetlistUnder(userId, name, band_id, is_public, NoFault)

(***************************************************************************)
(* PUT /api/setlists/:id                                                   *)
(* name: Null when the body has none; is_public: Null when undefined.      *)
(***************************************************************************)
updateSetlistUnder(userId, id, name, is_public, fault) ==
  LET found == findByPk(setlists, id) IN
  IF found = {}
  THEN /\ UNCHANGED db
       /\ Reply("updateSetlist", userId, id, 404, "Setlist not found", <<>>, <<>>)
  ELSE LET setlist == CHOOSE r \in found : TRUE IN
    IF ~mayUpdateSetlist(setlist, userId)
    THEN /\ UNCHANGED db
         /\ Reply("updateSetlist", userId, id, 403,
                  "You do not have permission to update this setlist", <<>>, <<>>)
    ELSE LET saved ==
               [setlist EXCEPT
                  !.name = IF name # Null THEN name ELSE @,
                  !.is_public = IF is_public # Null THEN (is_public = "true") ELSE @]
             events == emit(saved.band_id, userId, "setlist:updated", id, saved)
             f == effective(fault, 1, Len(events))
         IN /\ setlists' = IF wrote(f, 1) THEN (setlists \ {setlist}) \cup {saved}
                           ELSE setlists
            /\ UNCHANGED <<blocks, setlistSongs, nextUuid>>
            /\ Answer("updateSetlist", userId, id, 200, "", <<saved>>, events, f)

updateSetlist(userId, id, name, is_public) ==
  updateSetlistUnder(userId, id, name, is_public, NoFault)

(***************************************************************************)
(* DELETE /api/setlists/:id                                                *)
(***************************************************************************)
deleteSetlistUnder(userId, id, fault) ==
  LET found == findByPk(setlists, id) IN
  IF found = {}
  THEN /\ UNCHANGED db
       /\ Reply("deleteSetlist", userId, id, 404, "Setlist not found", <<>>, <<>>)
  ELSE LET setlist == CHOOSE r \in found : TRUE IN
    IF ~mayUpdateSetlist(setlist, userId)
    THEN /\ UNCHANGED db
         /\ Reply("deleteSetlist", userId, id, 403,
                  "You do not have permission to delete this setlist", <<>>, <<>>)
    ELSE LET events == emit(setlist.band_id, userId, "setlist:deleted", id,
                            [id |-> setlist.id])
             f == effective(fault, 3, Len(events))
         IN /\ setlistSongs' = IF wrote(f, 1) THEN destroyWhere(setlistSongs, setlist.id)
                               ELSE setlistSongs
            /\ blocks' = IF wrote(f, 2) THEN destroyWhere(blocks, setlist.id)
                         ELSE blocks
            /\ setlists' = IF wrote(f, 3) THEN setlists \ {setlist} ELSE setlists
            /\ UNCHANGED nextUuid
            /\ Answer("deleteSetlist", userId, id, 200, "Setlist deleted", <<>>,
                      events, f)

deleteSetlist(userId, id) == deleteSetlistUnder(userId, id, NoFault)

(***************************************************************************)
(* GET /api/setlists/:id/songs                                             *)
(***************************************************************************)
getSetlistSongs(userId, id) ==
  /\ UNCHANGED db
  /\ LET found == findByPk(setlists, id) IN
     IF found = {}
     THEN Reply("getSetlistSongs", userId, id, 404, "Setlist not found", <<>>, <<>>)
     ELSE LET setlist == CHOOSE r \in found : TRUE IN
       IF ~hasAccess(setlist, userId)
       THEN Reply("getSetlistSongs", userId, id, 403, "Access denied", <<>>, <<>>)
       ELSE \E body \in findAllByPosition(setlistSongs, id) :
              Reply("getSetlistSongs", userId, id, 200, "", body, <<>>)

(***************************************************************************)
(* POST /api/setlists/:id/songs                                            *)
(* block_id: Null when the body has none.  The route's validators reject   *)
(* a song_id that is no UUID (position is always an integer here).         *)
(***************************************************************************)
addSongToSetlistUnder(userId, id, song_id, position, block_id, fault) ==
  LET found == findByPk(setlists, id)
      deny(status, msg) ==
        /\ UNCHANGED db
        /\ Reply("addSongToSetlist", userId, id, status, msg, <<>>, <<>>)
  IN
  IF song_id = BadId THEN deny(400, "errors")
  ELSE IF found = {} THEN deny(404, "Setlist not found")
  ELSE LET setlist == CHOOSE r \in found : TRUE IN
    IF ~mayUpdateSongs(setlist, userId)
    THEN deny(403, "You do not have permission to update this setlist")
    ELSE IF ~songExists(song_id) THEN deny(404, "Song not found")
    ELSE IF block_id # Null /\ ~blockOfSetlist(block_id, id)
    THEN deny(400, "Invalid block ID")
    ELSE LET setlistSong ==
               [id |-> nextUuid + 1, setlist_id |-> id, song_id |-> song_id,
                position |-> position, block_id |-> block_id]
             events == emit(setlist.band_id, userId, "setlist:song:added", id,
                            [setlist_id |-> id, song |-> setlistSong])
             \* SetlistSong.create, then setlist.save
             f == effective(fault, 2, Len(events))
         IN /\ nextUuid < MaxEntries
            /\ nextUuid' = IF wrote(f, 1) THEN nextUuid + 1 ELSE nextUuid
            /\ setlistSongs' = IF wrote(f, 1) THEN setlistSongs \cup {setlistSong}
                               ELSE setlistSongs
            /\ UNCHANGED <<setlists, blocks>>
            /\ Answer("addSongToSetlist", userId, id, 201, "", <<setlistSong>>,
                      events, f)

addSongToSetlist(userId, id, song_id, position, block_id) ==
  addSongToSetlistUnder(userId, id, song_id, position, block_id, NoFault)

(***************************************************************************)
(* DELETE /api/setlists/:id/songs/:songId                                  *)
(***************************************************************************)
removeSongFromSetlistUnder(userId, id, songId, fault) ==
  LET found == findByPk(setlists, id)
      deny(status, msg) ==
        /\ UNCHANGED db
        /\ Reply("removeSongFromSetlist", userId, id, status, msg, <<>>, <<>>)
  IN
  IF found = {} THEN deny(404, "Setlist not found")
  ELSE LET setlist == CHOOSE r \in found : TRUE
           matching == {r \in setlistSongs :
                          r.setlist_id = id /\ r.song_id = songId}
       IN
    IF ~mayUpdateSongs(setlist, userId)
    THEN deny(403, "You do not have permission to update this setlist")
    ELSE IF matching = {} THEN deny(404, "Song not found in setlist")
    \* findOne: any one of the matching rows
    ELSE \E setlistSong \in matching :
           LET events == emit(setlist.band_id, userId, "setlist:song:removed", id,
                              [setlist_id |-> id, song_id |-> songId])
               \* setlistSong.destroy, then setlist.save
               f == effective(fault, 2, Len(events))
           IN /\ setlistSongs' = IF wrote(f, 1)
                                 THEN destroyRow(setlistSongs, setlistSong)
                                 ELSE setlistSongs
              /\ UNCHANGED <<setlists, blocks, nextUuid>>
              /\ Answer("removeSongFromSetlist", userId, id, 200,
                        "Song removed from setlist", <<>>, events, f)

removeSongFromSetlist(userId, id, songId) ==
  removeSongFromSetlistUnder(userId, id, songId, NoFault)

(***************************************************************************)
(* PUT /api/setlists/:id/reorder                                           *)
(* songs: a sequence of [id, position, block_id]; block_id Null when the   *)
(* item has none.                                                          *)
(***************************************************************************)
updateWhereId_shift(rows, song) ==
  { IF r.id = song.id
    THEN [r EXCEPT !.position = @ + song.position, !.block_id = song.block_id]
    ELSE r : r \in rows }

updateWhereId_keepBlock(rows, song) ==
  { IF r.id = song.id
    THEN [r EXCEPT !.position = song.position,
                   !.block_id = IF song.block_id = Null THEN @ ELSE song.block_id]
    ELSE r : r \in rows }

\* SetlistSong.update({position, block_id}, {where: {id: song.id}})
updateWhereId(rows, song) ==
  { IF r.id = song.id
    THEN [r EXCEPT !.position = song.position, !.block_id = song.block_id]
    ELSE r : r \in rows }

RECURSIVE applyUpdates(_, _)
applyUpdates(rows, songs) ==
  IF songs = <<>> THEN rows
  ELSE applyUpdates(updateWhereId(rows, Head(songs)), Tail(songs))

\* sequelize.transaction(async t => {...}): what the callback wrote, or
\* nothing of it when the callback threw
committed(rows, songs, f) ==
  IF f.kind = "write" THEN rows ELSE applyUpdates(rows, songs)

reorderSetlistSongsUnder(userId, id, songs, fault) ==
  LET found == findByPk(setlists, id)
      deny(status, msg) ==
        /\ UNCHANGED db
        /\ Reply("reorderSetlistSongs", userId, id, status, msg, <<>>, <<>>)
  IN
  IF songs = <<>> THEN deny(400, "Songs array is required")
  ELSE IF found = {} THEN deny(404, "Setlist not found")
  ELSE LET setlist == CHOOSE r \in found : TRUE IN
    IF ~mayUpdateSongs(setlist, userId)
    THEN deny(403, "You do not have permission to update this setlist")
    \* one SetlistSong.update per item, then setlist.save, in a transaction
    ELSE LET emits == IF setlist.band_id # Null THEN 2 ELSE 1
             f == effective(fault, Len(songs) + 1, emits)
             updated == committed(setlistSongs, songs, f)
         IN
         /\ setlistSongs' = updated
         /\ UNCHANGED <<setlists, blocks, nextUuid>>
         /\ \E body \in findAllByPosition(updated, id) :
              Answer("reorderSetlistSongs", userId, id, 200, "", body,
                     emit(setlist.band_id, userId, "setlist:songs:reordered", id,
                          [setlist_id |-> id, songs |-> body]),
                     f)

reorderSetlistSongs(userId, id, songs) ==
  reorderSetlistSongsUnder(userId, id, songs, NoFault)

(***************************************************************************)
(* PUT /api/setlists/:id/reorder, step by step, for client c.              *)
(* The store keeps what a transaction wrote apart from the table until the *)
(* commit, and undoes it on a rollback.  Row locks are not modelled: two   *)
(* transactions that would wait for each other's rows both proceed here,   *)
(* which only adds behaviours; a deadlock loser is a reorderThrow.         *)
(***************************************************************************)
updateIn_autocommit(held, rows, song) ==
  [rows |-> updateWhereId(rows, song), held |-> held]

\* SetlistSong.update(..., {where: {id: song.id}, transaction: t}): the
\* table as others read it, and what t holds
updateIn(held, rows, song) == [rows |-> rows, held |-> Append(held, song)]

rollback_kept(rows, held) == applyUpdates(rows, held)

\* the callback threw: sequelize rolls t back
rollback(rows, held) == rows

\* the checks before the transaction; then sequelize.transaction opens t
reorderBegin(c, userId, id, songs) ==
  LET found == findByPk(setlists, id)
      deny(status, msg) ==
        /\ tx' = [tx EXCEPT ![c] = [Idle EXCEPT !.pc = "done", !.user = userId,
                                     !.id = id, !.songs = songs,
                                     !.status = status]]
        /\ Respond("reorderSetlistSongs", userId, id, status, msg, <<>>, <<>>)
  IN
  /\ tx[c].pc = "idle"
  /\ UNCHANGED db
  /\ IF songs = <<>> THEN deny(400, "Songs array is required")
     ELSE IF found = {} THEN deny(404, "Setlist not found")
     ELSE LET setlist == CHOOSE r \in found : TRUE IN
       IF ~mayUpdateSongs(setlist, userId)
       THEN deny(403, "You do not have permission to update this setlist")
       ELSE /\ tx' = [tx EXCEPT ![c] = [Idle EXCEPT !.pc = "run", !.user = userId,
                                        !.id = id, !.songs = songs]]
            /\ UNCHANGED <<req, res, emitted, client>>

\* the next SetlistSong.update of the loop
reorderUpdate(c) ==
  /\ tx[c].pc = "run"
  /\ tx[c].at < Len(tx[c].songs)
  /\ LET song == tx[c].songs[tx[c].at + 1]
         written == updateIn(tx[c].held, setlistSongs, song)
     IN /\ setlistSongs' = written.rows
        /\ tx' = [tx EXCEPT ![c].at = @ + 1, ![c].held = written.held]
  /\ UNCHANGED <<setlists, blocks, nextUuid, req, res, emitted, client>>

\* setlist.save({transaction: t}), and the commit of t
reorderCommit(c) ==
  /\ tx[c].pc = "run"
  /\ tx[c].at = Len(tx[c].songs)
  /\ setlistSongs' = applyUpdates(setlistSongs, tx[c].held)
  /\ tx' = [tx EXCEPT ![c].pc = "committed"]
  /\ UNCHANGED <<setlists, blocks, nextUuid, req, res, emitted, client>>

\* a statement of the transaction throws: rollback, then the catch
reorderThrow(c) ==
  /\ tx[c].pc = "run"
  /\ setlistSongs' = rollback(setlistSongs, tx[c].held)
  /\ tx' = [tx EXCEPT ![c].pc = "done", ![c].status = 500]
  /\ UNCHANGED <<setlists, blocks, nextUuid>>
  /\ Respond("reorderSetlistSongs", tx[c].user, tx[c].id, 500, "Server Error",
             <<>>, <<>>)

\* SetlistSong.findAll, the emits, res.json
reorderRespond(c) ==
  /\ tx[c].pc = "committed"
  /\ tx' = [tx EXCEPT ![c].pc = "done", ![c].status = 200]
  /\ UNCHANGED db
  /\ \E body \in findAllByPosition(setlistSongs, tx[c].id) :
       \E setlist \in findByPk(setlists, tx[c].id) :
         Respond("reorderSetlistSongs", tx[c].user, tx[c].id, 200, "", body,
                 emit(setlist.band_id, tx[c].user, "setlist:songs:reordered",
                      tx[c].id, [setlist_id |-> tx[c].id, songs |-> body]))

(***************************************************************************)
(* addSongToSetlist and deleteSetlist statement by statement, for requests *)
(* that overlap.  Neither handler opens a transaction: every awaited       *)
(* statement is a step of its own on the committed tables.                 *)
(***************************************************************************)
\* SetlistSong.create(row): the store takes the row as it is and looks up
\* none of the rows it refers to
createRow(table, row) == table \cup {row}

\* validation, Setlist.findByPk, the permission, Song.findByPk, Block.findByPk
addBegin(c, userId, id, song_id, position, block_id) ==
  LET found == findByPk(setlists, id)
      deny(status, msg) ==
        /\ tx' = [tx EXCEPT ![c] = [Idle EXCEPT !.pc = "done", !.user = userId,
                                     !.id = id, !.status = status]]
        /\ Respond("addSongToSetlist", userId, id, status, msg, <<>>, <<>>)
  IN
  /\ tx[c].pc = "idle"
  /\ UNCHANGED db
  /\ IF song_id = BadId THEN deny(400, "errors")
     ELSE IF found = {} THEN deny(404, "Setlist not found")
     ELSE LET setlist == CHOOSE r \in found : TRUE IN
       IF ~mayUpdateSongs(setlist, userId)
       THEN deny(403, "You do not have permission to update this setlist")
       ELSE IF ~songExists(song_id) THEN deny(404, "Song not found")
       ELSE IF block_id # Null /\ ~blockOfSetlist(block_id, id)
       THEN deny(400, "Invalid block ID")
       ELSE /\ tx' = [tx EXCEPT ![c] =
                        [Idle EXCEPT !.pc = "add:create", !.user = userId, !.id = id,
                                     !.songs = <<[song_id |-> song_id,
                                                  position |-> position,
                                                  block_id |-> block_id,
                                                  band_id |-> setlist.band_id]>>]]
            /\ UNCHANGED <<req, res, emitted, client>>

\* await SetlistSong.create({id: uuidv4(), setlist_id: req.params.id, ...})
addCreate(c) ==
  /\ tx[c].pc = "add:create"
  /\ nextUuid < MaxEntries
  /\ LET song == tx[c].songs[1]
         setlistSong == [id |-> nextUuid + 1, setlist_id |-> tx[c].id,
                         song_id |-> song.song_id, position |-> song.position,
                         block_id |-> song.block_id]
     IN /\ setlistSongs' = createRow(setlistSongs, setlistSong)
        /\ nextUuid' = nextUuid + 1
        /\ tx' = [tx EXCEPT ![c].pc = "add:save", ![c].held = <<setlistSong>>]
  /\ UNCHANGED <<setlists, blocks, req, res, emitted, client>>

\* setlist.save() of the instance read at the start (an UPDATE by id: no
\* row of setlist_songs or blocks is touched), SetlistSong.findByPk, the
\* emits to the rooms of the instance, res.status(201)
addRespond(c) ==
  /\ tx[c].pc = "add:save"
  /\ UNCHANGED db
  /\ tx' = [tx EXCEPT ![c].pc = "done", ![c].status = 201]
  /\ Respond("addSongToSetlist", tx[c].user, tx[c].id, 201, "", tx[c].held,
             emit(tx[c].songs[1].band_id, tx[c].user, "setlist:song:added",
                  tx[c].id, [setlist_id |-> tx[c].id, song |-> tx[c].held[1]]))

\* Setlist.findByPk and the permission
deleteBegin(c, userId, id) ==
  LET found == findByPk(setlists, id)
      deny(status, msg) ==
        /\ tx' = [tx EXCEPT ![c] = [Idle EXCEPT !.pc = "done", !.user = userId,
                                     !.id = id, !.status = status]]
        /\ Respond("deleteSetlist", userId, id, status, msg, <<>>, <<>>)
  IN
  /\ tx[c].pc = "idle"
  /\ UNCHANGED db
  /\ IF found = {} THEN deny(404, "Setlist not found")
     ELSE LET setlist == CHOOSE r \in found : TRUE IN
       IF ~mayUpdateSetlist(setlist, userId)
       THEN deny(403, "You do not have permission to delete this setlist")
       ELSE /\ tx' = [tx EXCEPT ![c] =
                        [Idle EXCEPT !.pc = "delete:songs", !.user = userId,
                                     !.id = id, !.held = <<setlist>>]]
            /\ UNCHANGED <<req, res, emitted, client>>

\* await SetlistSong.destroy({where: {setlist_id: setlistId}})
deleteSongs(c) ==
  /\ tx[c].pc = "delete:songs"
  /\ setlistSongs' = destroyWhere(setlistSongs, tx[c].id)
  /\ tx' = [tx EXCEPT ![c].pc = "delete:blocks"]
  /\ UNCHANGED <<setlists, blocks, nextUuid, req, res, emitted, client>>

\* await Block.destroy({where: {setlist_id: setlistId}})
deleteBlocks(c) ==
  /\ tx[c].pc = "delete:blocks"
  /\ blocks' = destroyWhere(blocks, tx[c].id)
  /\ tx' = [tx EXCEPT ![c].pc = "delete:setlist"]
  /\ UNCHANGED <<setlists, setlistSongs, nextUuid, req, res, emitted, client>>

\* await setlist.destroy(), the emits, res.json
deleteRespond(c) ==
  /\ tx[c].pc = "delete:setlist"
  /\ setlists' = {r \in setlists : r.id # tx[c].id}
  /\ tx' = [tx EXCEPT ![c].pc = "done", ![c].status = 200]
  /\ UNCHANGED <<blocks, setlistSongs, nextUuid>>
  /\ Respond("deleteSetlist", tx[c].user, tx[c].id, 200, "Setlist deleted", <<>>,
             emit(tx[c].held[1].band_id, tx[c].user, "setlist:deleted", tx[c].id,
                  [id |-> tx[c].id]))

(***************************************************************************)
(* GET /api/setlists/:id/export                                            *)
(***************************************************************************)
exportSetlistToPDF(userId, id) ==
  /\ UNCHANGED db
  /\ LET found == findByPk(setlists, id) IN
     IF found = {}
     THEN Reply("exportSetlistToPDF", userId, id, 404, "Setlist not found", <<>>, <<>>)
     ELSE LET setlist == CHOOSE r \in found : TRUE IN
       IF ~hasAccess(setlist, userId)
       THEN Reply("exportSetlistToPDF", userId, id, 403, "Access denied", <<>>, <<>>)
       \* PDFService.generateSetlistPDF(setlist, setlistSongs)
       ELSE \E body \in findAllByPosition(setlistSongs, id) :
              Reply("exportSetlistToPDF", userId, id, 200, "", body, <<>>)

(***************************************************************************)
(* POST /api/setlists/:id/spotify                                          *)
(* valid: the route's validators accept the body.                          *)
(***************************************************************************)
\* UserIntegration rows with provider 'spotify'
UserIntegration == {"u1", "u3", "u4"}
getUserSpotifyToken(userId) == IF userId \in UserIntegration THEN "token" ELSE Null

\* song.spotify_id of the songs table
spotify_id(song_id) == IF song_id = "g1" THEN "sp1" ELSE Null

\* setlistSongs.map(s => s.song.spotify_id).filter(id => id)
RECURSIVE spotifyIds(_)
spotifyIds(rows) ==
  IF rows = <<>> THEN <<>>
  ELSE (IF spotify_id(Head(rows).song_id) # Null
        THEN <<spotify_id(Head(rows).song_id)>> ELSE <<>>)
       \o spotifyIds(Tail(rows))

exportSetlistToSpotify(userId, id, valid) ==
  /\ UNCHANGED db
  /\ LET found == findByPk(setlists, id) IN
     IF ~valid
     THEN Reply("exportSetlistToSpotify", userId, id, 400, "errors", <<>>, <<>>)
     ELSE IF found = {}
     THEN Reply("exportSetlistToSpotify", userId, id, 404, "Setlist not found", <<>>, <<>>)
     ELSE LET setlist == CHOOSE r \in found : TRUE IN
       IF ~hasAccess(setlist, userId)
       THEN Reply("exportSetlistToSpotify", userId, id, 403, "Access denied", <<>>, <<>>)
       ELSE IF getUserSpotifyToken(userId) = Null
       THEN Reply("exportSetlistToSpotify", userId, id, 401,
                  "Spotify account not connected", <<>>, <<>>)
       \* SpotifyService.createPlaylistFromSetlist(..., ids)
       ELSE \E rows \in findAllByPosition(setlistSongs, id) :
              Reply("exportSetlistToSpotify", userId, id, 200, "", spotifyIds(rows), <<>>)

(***************************************************************************)
(* POST /api/setlists/:id/share                                            *)
(***************************************************************************)
generateShareLink(userId, id) ==
  /\ UNCHANGED db
  /\ LET found == findByPk(setlists, id) IN
     IF found = {}
     THEN Reply("generateShareLink", userId, id, 404, "Setlist not found", <<>>, <<>>)
     ELSE LET setlist == CHOOSE r \in found : TRUE IN
       IF ~mayUpdateSongs(setlist, userId)
       THEN Reply("generateShareLink", userId, id, 403,
                  "You do not have permission to share this setlist", <<>>, <<>>)
       ELSE Reply("generateShareLink", userId, id, 200, "", <<>>, <<>>)

(***************************************************************************)
(* The setlists slice of the Redux store (src/README.md).                  *)
(***************************************************************************)
\* the second operand of err.response?.data?.msg || '...'
fallback(thunk) ==
  CASE thunk = "fetchSetlists" -> "Failed to fetch setlists"
    [] thunk = "fetchSetlistById" -> "Failed to fetch setlist"
    [] thunk = "fetchSetlistSongs" -> "Failed to fetch setlist songs"
    [] thunk = "createSetlist" -> "Failed to create setlist"
    [] thunk = "updateSetlist" -> "Failed to update setlist"
    [] thunk = "deleteSetlist" -> "Failed to delete setlist"
    [] thunk = "addSongToSetlist" -> "Failed to add song to setlist"
    [] thunk = "removeSongFromSetlist" -> "Failed to remove song from setlist"
    [] thunk = "reorderSetlistSongs" -> "Failed to reorder setlist songs"

\* axios resolves on a 2xx status and rejects otherwise, and when no
\* response came
resolves(r) == r.pc = "served" /\ r.status >= 200 /\ r.status < 300

\* rejectWithValue(err.response?.data?.msg || fallback): the body of a 400
\* from the validators ({errors}) and of a 500 (the text 'Server Error')
\* has no msg
rejectWithValue(r) ==
  IF r.pc = "served" /\ r.msg \notin {"", "errors", "Server Error"}
  THEN r.msg ELSE fallback(r.thunk)

\* state.setlistSongs.sort((a, b) => a.position - b.position): stable
insertByPosition(sorted, x) ==
  LET k == Cardinality({i \in 1..Len(sorted) : sorted[i].position <= x.position})
  IN SubSeq(sorted, 1, k) \o <<x>> \o SubSeq(sorted, k + 1, Len(sorted))
RECURSIVE sortByPosition(_)
sortByPosition(rows) ==
  IF rows = <<>> THEN <<>>
  ELSE insertByPosition(sortByPosition(SubSeq(rows, 1, Len(rows) - 1)),
                        rows[Len(rows)])

\* .addCase(<thunk>.pending, ...)
pendingCase(st) == [st EXCEPT !.isLoading = TRUE, !.error = Null]

rejectedCase_stillLoading(st, payload) == [st EXCEPT !.error = payload]

\* .addCase(<thunk>.rejected, ...)
rejectedCase(st, payload) == [st EXCEPT !.isLoading = FALSE, !.error = payload]

\* state.setlistSongs.filter(s => s.song_id !== action.payload.song_id)
removeFulfilled(rows, song_id) ==
  LET keep(x) == x.song_id # song_id IN SelectSeq(rows, keep)

\* .addCase(<thunk>.fulfilled, ...); r: the thunk with its response
fulfilledCase(st, r) ==
  LET done == [st EXCEPT !.isLoading = FALSE]
      isCurrent(id) == st.currentSetlist # <<>> /\ st.currentSetlist[1].id = id
  IN
  CASE r.thunk = "fetchSetlists" -> [done EXCEPT !.setlists = r.body]
    [] r.thunk = "fetchSetlistById" -> [done EXCEPT !.currentSetlist = r.body]
    [] r.thunk = "fetchSetlistSongs" -> [done EXCEPT !.setlistSongs = r.body]
    [] r.thunk = "createSetlist" ->
         [done EXCEPT !.setlists = Append(@, r.body[1])]
    [] r.thunk = "updateSetlist" ->
         LET payload == r.body[1]
             hits == {i \in 1..Len(st.setlists) : st.setlists[i].id = payload.id}
             index == IF hits = {} THEN 0
                      ELSE CHOOSE i \in hits : \A j \in hits : i <= j
         IN [done EXCEPT
               !.setlists = [i \in 1..Len(st.setlists) |->
                               IF i = index THEN payload ELSE st.setlists[i]],
               !.currentSetlist = IF isCurrent(payload.id) THEN <<payload>> ELSE @]
    [] r.thunk = "deleteSetlist" ->
         LET keep(x) == x.id # r.arg.id
         IN [done EXCEPT
               !.setlists = SelectSeq(@, keep),
               !.currentSetlist = IF isCurrent(r.arg.id) THEN <<>> ELSE @,
               !.setlistSongs = IF isCurrent(r.arg.id) THEN <<>> ELSE @]
    [] r.thunk = "addSongToSetlist" ->
         [done EXCEPT !.setlistSongs = sortByPosition(Append(@, r.body[1]))]
    [] r.thunk = "removeSongFromSetlist" ->
         [done EXCEPT !.setlistSongs = removeFulfilled(@, r.arg.song_id)]
    [] r.thunk = "reorderSetlistSongs" -> [done EXCEPT !.setlistSongs = r.body]

\* dispatch(<thunk>(arg)): the pending action is reduced at once
dispatch(c, thunk, arg) ==
  /\ inflight[c].pc = "idle"
  /\ state' = pendingCase(state)
  /\ inflight' = [inflight EXCEPT ![c] = [NoRequest EXCEPT !.pc = "pending",
                                                          !.thunk = thunk,
                                                          !.arg = arg]]
  /\ UNCHANGED <<db, req, res, emitted, tx>>

\* the request of the thunk reaches the server, which serves one at a time
request(c) ==
  /\ inflight[c].pc = "pending"
  /\ \A d \in Clients : inflight[d].pc # "serving"
  /\ inflight' = [inflight EXCEPT ![c].pc = "serving"]
  /\ UNCHANGED <<db, req, res, emitted, tx, state>>

\* the handler of the route the thunk calls, for the logged-in user
serve(c, userId) ==
  LET r == inflight[c]
      a == r.arg
  IN
  /\ r.pc = "serving"
  /\ CASE r.thunk = "fetchSetlists" -> getAllSetlists(userId)
       [] r.thunk = "fetchSetlistById" -> getSetlistById(userId, a.id)
       [] r.thunk = "fetchSetlistSongs" -> getSetlistSongs(userId, a.id)
       [] r.thunk = "createSetlist" -> createSetlist(userId, a.name, Null, Null)
       [] r.thunk = "updateSetlist" -> updateSetlist(userId, a.id, a.name, Null)
       [] r.thunk = "deleteSetlist" -> deleteSetlist(userId, a.id)
       [] r.thunk = "addSongToSetlist" ->
            addSongToSetlist(userId, a.id, a.song_id, a.position, a.block_id)
       [] r.thunk = "removeSongFromSetlist" ->
            removeSongFromSetlist(userId, a.id, a.song_id)
       [] r.thunk = "reorderSetlistSongs" ->
            reorderSetlistSongs(userId, a.id, a.songs)

\* the request gets no response (network error): the catch of the thunk
fail(c) ==
  /\ inflight[c].pc = "pending"
  /\ inflight' = [inflight EXCEPT ![c].pc = "failed"]
  /\ UNCHANGED <<db, req, res, emitted, tx, state>>

\* the thunk's promise settles: its fulfilled or rejected action is reduced
settle(c) ==
  LET r == inflight[c] IN
  /\ r.pc \in {"served", "failed"}
  /\ state' = IF resolves(r) THEN fulfilledCase(state, r)
              ELSE rejectedCase(state, rejectWithValue(r))
  /\ inflight' = [inflight EXCEPT ![c] = NoRequest]
  /\ UNCHANGED <<db, req, res, emitted, tx>>

\* reducers: { clearCurrentSetlist, resetSetlistsState }
clearCurrentSetlist ==
  /\ state' = [state EXCEPT !.currentSetlist = <<>>, !.setlistSongs = <<>>]
  /\ UNCHANGED <<db, req, res, emitted, tx, inflight>>

resetSetlistsState ==
  /\ state' = initialState
  /\ UNCHANGED <<db, req, res, emitted, tx, inflight>>

(***************************************************************************)
(* The requests the clients send.                                          *)
(*                                                                         *)
(* Spec: every user sends every kind of request to every setlist; the      *)
(* songs requests carry position 1 and no block.                           *)
(* SpecOrder: the creator of both setlists sends the songs requests with   *)
(* every position and block.                                               *)
(* SpecList: the creator sends the songs requests to setlist s1, with      *)
(* every position, with no block or block k1.                              *)
(* SpecNotify: the creator of s1 and a member of its band send the writing *)
(* requests to s1 and to the setlist they create, and the socket server    *)
(* may throw while one is served.                                          *)
(* SpecConc: two clients of the creator each send one reorder request to   *)
(* s1, served step by step at the same time, while the list of s1 is read. *)
(* SpecFault: the creator of s1 and an outsider send the songs requests to *)
(* s1 and to an id that names no setlist, and the store or the socket      *)
(* server may throw while one is served.                                   *)
(***************************************************************************)
SongInputs == Song \cup {GhostSong}
BlockInputs == BlockIds \cup {Null}
Updates ==
  [id : EntryIds \cup {GhostEntry}, position : Positions, block_id : BlockInputs]
UpdateLists ==
  {<<>>} \cup {<<a>> : a \in Updates}
         \cup {<<p[1], p[2]>> : p \in {q \in Updates \X Updates : q[1].id < q[2].id}}
PlainUpdateLists ==
  {<<>>} \cup {<<[id |-> e, position |-> 1, block_id |-> Null]>> :
                 e \in EntryIds \cup {GhostEntry}}

Next ==
  \E userId \in Users, id \in SetlistIds :
    \/ getSetlistById(userId, id)
    \/ \E name \in {Null, "n1"}, is_public \in {Null, "true", "false"} :
         updateSetlist(userId, id, name, is_public)
    \/ deleteSetlist(userId, id)
    \/ getSetlistSongs(userId, id)
    \/ \E song_id \in {"g1", GhostSong, BadId} :
         addSongToSetlist(userId, id, song_id, 1, Null)
    \/ \E songId \in {"g1", GhostSong} : removeSongFromSetlist(userId, id, songId)
    \/ \E songs \in PlainUpdateLists : reorderSetlistSongs(userId, id, songs)
    \/ exportSetlistToPDF(userId, id)
    \/ \E valid \in BOOLEAN : exportSetlistToSpotify(userId, id, valid)
    \/ generateShareLink(userId, id)

Spec == Init /\ [][Next]_vars

NextOrder ==
  \E id \in SetlistIds :
    \/ getSetlistSongs("u1", id)
    \/ \E song_id \in SongInputs, position \in Positions, block_id \in BlockInputs :
         addSongToSetlist("u1", id, song_id, position, block_id)
    \/ \E songId \in SongInputs : removeSongFromSetlist("u1", id, songId)
    \/ \E songs \in UpdateLists : reorderSetlistSongs("u1", id, songs)

SpecOrder == Init /\ [][NextOrder]_vars

ListBlocks == {Null, "k1"}
ListUpdates ==
  [id : EntryIds \cup {GhostEntry}, position : Positions, block_id : ListBlocks]
ListUpdateLists ==
  {<<>>} \cup {<<a>> : a \in ListUpdates}
         \cup {<<p[1], p[2]>> :
                 p \in {q \in ListUpdates \X ListUpdates :
                          q[1].id < q[2].id /\ q[2].id \in EntryIds}}

NextList ==
  \/ getSetlistSongs("u1", "s1")
  \/ \E song_id \in Song, position \in Positions, block_id \in ListBlocks :
       addSongToSetlist("u1", "s1", song_id, position, block_id)
  \/ \E songId \in SongInputs : removeSongFromSetlist("u1", "s1", songId)
  \/ \E songs \in ListUpdateLists : reorderSetlistSongs("u1", "s1", songs)

SpecList == Init /\ [][NextList]_vars

FaultUpdates == [id : EntryIds \cup {GhostEntry}, position : Positions, block_id : {Null}]
FaultUpdateLists ==
  {<<>>} \cup {<<a>> : a \in FaultUpdates}
         \cup {<<p[1], p[2]>> :
                 p \in {q \in FaultUpdates \X FaultUpdates :
                          q[1].id < q[2].id /\ q[2].id \in EntryIds}}

FaultUsers == {"u1", "u4"}
FaultSetlistIds == {"s1", NewSetlistId}

NextFault ==
  \E userId \in FaultUsers, id \in FaultSetlistIds, fault \in Faults :
    \/ \E song_id \in {"g1", GhostSong, BadId}, position \in Positions :
         addSongToSetlistUnder(userId, id, song_id, position, Null, fault)
    \/ \E songId \in {"g1", GhostSong} :
         removeSongFromSetlistUnder(userId, id, songId, fault)
    \/ \E songs \in FaultUpdateLists :
         reorderSetlistSongsUnder(userId, id, songs, fault)

SpecFault == Init /\ [][NextFault]_vars

NotifyUsers == {"u1", "u3"}

NextNotify ==
  \E userId \in NotifyUsers, fault \in EmitFaults :
    \/ \E name \in {Null, "n1"}, band_id \in {Null, "b1", GhostBand} :
         createSetlistUnder(userId, name, band_id, Null, fault)
    \/ \E id \in FaultSetlistIds :
         \/ updateSetlistUnder(userId, id, "n1", Null, fault)
         \/ deleteSetlistUnder(userId, id, fault)
         \/ \E song_id \in {"g1", GhostSong, BadId} :
              addSongToSetlistUnder(userId, id, song_id, 1, Null, fault)
         \/ \E songId \in {"g1", GhostSong} :
              removeSongFromSetlistUnder(userId, id, songId, fault)
         \/ \E songs \in PlainUpdateLists :
              reorderSetlistSongsUnder(userId, id, songs, fault)

SpecNotify == Init /\ [][NextNotify]_vars

\* s1 after MaxEntries adds of g1 by its creator, at positions 1, 2, ...
ConcRows ==
  { [id |-> e, setlist_id |-> "s1", song_id |-> "g1", position |-> e,
     block_id |-> Null] : e \in EntryIds }
InitConc ==
  /\ state = initialState
  /\ inflight = [c \in Clients |-> NoRequest]
  /\ tx = [c \in Clients |-> Idle]
  /\ setlists = InitSetlists
  /\ blocks = InitBlocks
  /\ setlistSongs = ConcRows
  /\ nextUuid = MaxEntries
  /\ req = [op |-> "addSongToSetlist", user |-> "u1", id |-> "s1"]
  /\ res = [status |-> 201, msg |-> "",
            body |-> <<CHOOSE r \in ConcRows : r.id = MaxEntries>>]
  /\ emitted = emit("b1", "u1", "setlist:song:added", "s1",
                    [setlist_id |-> "s1",
                     song |-> CHOOSE r \in ConcRows : r.id = MaxEntries])

ConcUpdates == [id : EntryIds, position : Positions, block_id : {Null}]
ConcUpdateLists ==
  {<<>>} \cup {<<a>> : a \in ConcUpdates}
         \cup {<<p[1], p[2]>> :
                 p \in {q \in ConcUpdates \X ConcUpdates : q[1].id < q[2].id}}

NextConc ==
  \/ \E c \in Clients :
       \/ \E songs \in ConcUpdateLists : reorderBegin(c, "u1", "s1", songs)
       \/ reorderUpdate(c)
       \/ reorderCommit(c)
       \/ reorderThrow(c)
       \/ reorderRespond(c)
  \/ getSetlistSongs("u1", "s1")

SpecConc == InitConc /\ [][NextConc]_vars

(***************************************************************************)
(* The requests that create and delete setlists, by every user, with the   *)
(* store or the socket server failing at any point of a delete, and adds   *)
(* by the creator so that a delete finds entries.                          *)
(***************************************************************************)
Names == {Null, "n1"}
BandInputs == {Null, "b1", GhostBand}
PublicInputs == {Null, "true", "false"}
NextSetlist ==
  \/ \E userId \in Users, name \in Names, band_id \in BandInputs,
        is_public \in PublicInputs :
       createSetlist(userId, name, band_id, is_public)
  \/ \E userId \in Users, id \in SetlistIds \cup {NewSetlistId}, fault \in Faults :
       deleteSetlistUnder(userId, id, fault)
  \/ \E block_id \in ListBlocks : addSongToSetlist("u1", "s1", "g1", 1, block_id)

SpecSetlist == Init /\ [][NextSetlist]_vars

(***************************************************************************)
(* The listing and the two exports of s1 by its creator, after adds at     *)
(* every position and into either block.                                   *)
(***************************************************************************)
NextExport ==
  \/ \E song_id \in Song, position \in Positions, block_id \in BlockInputs :
       addSongToSetlist("u1", "s1", song_id, position, block_id)
  \/ getSetlistSongs("u1", "s1")
  \/ exportSetlistToPDF("u1", "s1")
  \/ \E valid \in BOOLEAN : exportSetlistToSpotify("u1", "s1", valid)

SpecExport == Init /\ [][NextExport]_vars

(***************************************************************************)
(* Adds and deletes by the creator and by the band's admin on the two      *)
(* setlists, their statements interleaved.                                 *)
(***************************************************************************)
RaceUsers == {"u1", "u2"}
NextRace ==
  \E c \in Clients :
    \/ \E userId \in RaceUsers, id \in SetlistIds, block_id \in ListBlocks :
         addBegin(c, userId, id, "g1", 1, block_id)
    \/ addCreate(c)
    \/ addRespond(c)
    \/ \E userId \in RaceUsers, id \in SetlistIds : deleteBegin(c, userId, id)
    \/ deleteSongs(c)
    \/ deleteBlocks(c)
    \/ deleteRespond(c)

SpecRace == Init /\ [][NextRace]_vars

(***************************************************************************)
(* The browser of the creator u1.                                          *)
(* SpecThunks: it dispatches each of the nine thunks, one at a time, and   *)
(* uses the two plain reducers; a request may get no response.             *)
(* SpecStore: it dispatches the thunks of a setlist's page (the setlist,   *)
(* its songs, add, remove, reorder) for s1 and s2, one at a time.          *)
(* SpecOverlap: it has two fetches of s1 in flight at the same time.       *)
(***************************************************************************)
LoggedIn == "u1"
toSecond == <<[id |-> 1, position |-> 2, block_id |-> Null]>>
ThunkRequests ==
  { [thunk |-> "fetchSetlists", arg |-> NoArg],
    [thunk |-> "fetchSetlistById", arg |-> [NoArg EXCEPT !.id = "s1"]],
    [thunk |-> "fetchSetlistSongs", arg |-> [NoArg EXCEPT !.id = "s1"]],
    [thunk |-> "createSetlist", arg |-> [NoArg EXCEPT !.name = "n1"]],
    [thunk |-> "updateSetlist", arg |-> [NoArg EXCEPT !.id = "s1"]],
    [thunk |-> "deleteSetlist", arg |-> [NoArg EXCEPT !.id = "s2"]],
    [thunk |-> "addSongToSetlist",
     arg |-> [NoArg EXCEPT !.id = "s1", !.song_id = "g1", !.position = 1]],
    [thunk |-> "removeSongFromSetlist",
     arg |-> [NoArg EXCEPT !.id = "s1", !.song_id = "g1"]],
    [thunk |-> "reorderSetlistSongs",
     arg |-> [NoArg EXCEPT !.id = "s1", !.songs = toSecond]] }

NextThunks ==
  \/ \E q \in ThunkRequests : dispatch("c1", q.thunk, q.arg)
  \/ request("c1")
  \/ serve("c1", LoggedIn)
  \/ fail("c1")
  \/ settle("c1")
  \/ clearCurrentSetlist
  \/ resetSetlistsState

SpecThunks == Init /\ [][NextThunks]_vars

StoreRequests ==
  [thunk : {"fetchSetlistById", "fetchSetlistSongs"},
   arg : {[NoArg EXCEPT !.id = id] : id \in SetlistIds}]
  \cup [thunk : {"addSongToSetlist"},
        arg : {[NoArg EXCEPT !.id = id, !.song_id = "g1", !.position = 1] :
                 id \in SetlistIds}]
  \cup { [thunk |-> "removeSongFromSetlist",
          arg |-> [NoArg EXCEPT !.id = "s1", !.song_id = "g1"]],
         [thunk |-> "reorderSetlistSongs",
          arg |-> [NoArg EXCEPT !.id = "s1", !.songs = toSecond]] }

NextStore ==
  \/ \E q \in StoreRequests : dispatch("c1", q.thunk, q.arg)
  \/ request("c1")
  \/ serve("c1", LoggedIn)
  \/ settle("c1")

SpecStore == Init /\ [][NextStore]_vars

OverlapRequests ==
  [thunk : {"fetchSetlistById", "fetchSetlistSongs"},
   arg : {[NoArg EXCEPT !.id = "s1"]}]

NextOverlap ==
  \E c \in Clients :
    \/ \E q \in OverlapRequests : dispatch(c, q.thunk, q.arg)
    \/ request(c)
    \/ serve(c, LoggedIn)
    \/ fail(c)
    \/ settle(c)

SpecOverlap == Init /\ [][NextOverlap]_vars

(***************************************************************************)
(* Properties.                                                             *)
(***************************************************************************)
blockPosition(block_id) == (CHOOSE b \in blocks : b.id = block_id).position

\* a comes before b in an order grouped by ascending block position, then
\* ascending entry position within the block.  Entries without a block are
\* compared with the others by nothing but their grouping.
inBlockOrder(a, b) ==
  IF a.block_id = b.block_id THEN a.position <= b.position
  ELSE IF a.block_id # Null /\ b.block_id # Null
          /\ findByPk(blocks, a.block_id) # {} /\ findByPk(blocks, b.block_id) # {}
       THEN blockPosition(a.block_id) <= blockPosition(b.block_id)
       ELSE TRUE

\* C1: the body of a successful GET /api/setlists/:id/songs lists the
\* entries grouped by block, blocks by ascending block position, entries of
\* a block by ascending entry position.
C1_ListedByBlockThenPosition ==
  (req.op = "getSetlistSongs" /\ res.status = 200) =>
    LET body == res.body IN
    /\ \A i, j \in 1..Len(body) : i < j => inBlockOrder(body[i], body[j])
    /\ \A i, j, k \in 1..Len(body) :
         (i < j /\ j < k /\ body[i].block_id = body[k].block_id)
           => body[j].block_id = body[i].block_id

namesNoRow(song) == findByPk(setlistSongs, song.id) = {}
namesRowOf(song, id) == \E r \in findByPk(setlistSongs, song.id) : r.setlist_id = id
items(songs) == {songs[i] : i \in 1..Len(songs)}

\* C2: a reorder request that carries an update for an id naming no entry
\* together with updates for entries of the setlist changes no entry.
C2_UnknownIdPersistsNothing ==
  [][\A id \in SetlistIds, songs \in UpdateLists :
       ( /\ reorderSetlistSongs("u1", id, songs)
         /\ \E song \in items(songs) : namesNoRow(song)
         /\ \E song \in items(songs) : namesRowOf(song, id) )
       => setlistSongs' = setlistSongs]_vars

\* C3: a reorder request on setlist S that names an entry of another
\* setlist changes no entry, and no reorder request on S changes an entry
\* of another setlist.
C3_ForeignEntryFailsWhole ==
  [][\A id \in SetlistIds, songs \in UpdateLists :
       reorderSetlistSongs("u1", id, songs) =>
         /\ (\E song \in items(songs) :
               \E r \in findByPk(setlistSongs, song.id) : r.setlist_id # id)
              => setlistSongs' = setlistSongs
         /\ \A r \in setlistSongs : r.setlist_id # id => r \in setlistSongs']_vars

\* the user is neither the creator of the setlist nor a member of its band
outsider(setlist, userId) ==
  /\ setlist.created_by # userId
  /\ ~isUserBandMember(userId, setlist.band_id)

\* C4: every request on an existing private setlist by a user who is
\* neither its creator nor a member of its band is answered 403, also when
\* the setlist has no band (a request the validators reject may be
\* answered 400 instead).
C4_OutsiderAlwaysDenied ==
  \A setlist \in setlists :
    ( /\ req.op # "none"
      /\ req.id = setlist.id
      /\ outsider(setlist, req.user)
      /\ ~setlist.is_public )
    => res.status \in {403, 400}

\* C5: a member of the setlist's band who is neither admin nor creator is
\* denied update and delete (403, nothing written, nothing emitted) and is
\* not denied add song, remove song and reorder.
C5_MemberNotAdmin ==
  [][\A setlist \in setlists :
       ( /\ req'.id = setlist.id
         /\ setlist.band_id # Null
         /\ isUserBandMember(req'.user, setlist.band_id)
         /\ ~isBandAdmin(req'.user, setlist.band_id)
         /\ setlist.created_by # req'.user )
       => /\ req'.op \in {"updateSetlist", "deleteSetlist"}
               => (res'.status = 403 /\ UNCHANGED db /\ emitted' = <<>>)
          /\ req'.op \in {"addSongToSetlist", "removeSongFromSetlist",
                          "reorderSetlistSongs"}
               => res'.status # 403]_vars

C5_witness ==
  /\ req.op = "updateSetlist" /\ res.status = 403
  /\ \E setlist \in setlists :
       /\ setlist.id = req.id
       /\ isUserBandMember(req.user, setlist.band_id)
       /\ ~isBandAdmin(req.user, setlist.band_id)
       /\ setlist.created_by # req.user

Mutations ==
  {"updateSetlist", "deleteSetlist", "addSongToSetlist",
   "removeSongFromSetlist", "reorderSetlistSongs"}

\* C6 as stated: on a public setlist a user who is neither creator nor band
\* member is allowed the reads and is denied every mutation with 403, and
\* the mutation changes nothing.
C6_PublicOutsider_403 ==
  [][\A setlist \in setlists :
       (req'.id = setlist.id /\ setlist.is_public /\ outsider(setlist, req'.user))
       => /\ req'.op \in {"getSetlistById", "getSetlistSongs"} => res'.status = 200
          /\ req'.op \in Mutations
               => (res'.status = 403 /\ UNCHANGED db /\ emitted' = <<>>)]_vars

\* C6, amended: on a public setlist a user who is neither creator nor band
\* member is allowed the reads; every mutation is rejected and changes
\* nothing, with 403, or with 400 when the request fails input validation
\* (an empty songs array of reorder, a malformed body of add song), which
\* is checked before access.
C6_PublicOutsider ==
  [][\A setlist \in setlists :
       (req'.id = setlist.id /\ setlist.is_public /\ outsider(setlist, req'.user))
       => /\ req'.op \in {"getSetlistById", "getSetlistSongs"} => res'.status = 200
          /\ req'.op \in Mutations
               => /\ \/ res'.status = 403
                     \/ /\ res'.status = 400
                        /\ res'.msg \in {"Songs array is required", "errors"}
                        /\ req'.op \in {"addSongToSetlist", "reorderSetlistSongs"}
                  /\ UNCHANGED db
                  /\ emitted' = <<>>]_vars

C6_witness ==
  /\ req.op = "reorderSetlistSongs" /\ res.status = 403
  /\ \E setlist \in setlists :
       setlist.id = req.id /\ setlist.is_public /\ outsider(setlist, req.user)

\* C7: after a deleteSetlist that answers success, no setlist_songs row and
\* no blocks row carries the setlist's id, and the setlist row is gone.
C7_DeleteCascades ==
  (req.op = "deleteSetlist" /\ res.status = 200) =>
    /\ \A r \in setlistSongs : r.setlist_id # req.id
    /\ \A b \in blocks : b.setlist_id # req.id
    /\ findByPk(setlists, req.id) = {}

\* s1 starts with two blocks; its rows were there when the delete ran
C7_witness ==
  /\ req.op = "deleteSetlist" /\ res.status = 200 /\ req.id = "s1"
  /\ blocks = {}
  /\ nextUuid = MaxEntries
  /\ \A r \in setlistSongs : r.setlist_id = "s2"

\* C8: every entry with a block references a block that exists and belongs
\* to the entry's own setlist.
C8_BlockOfOwnSetlist ==
  \A r \in setlistSongs :
    r.block_id # Null => blockOfSetlist(r.block_id, r.setlist_id)

\* C9: when a reorder request on a setlist has succeeded, no two entries of
\* that setlist in the same block (the null block included) have the same
\* position.
C9_ReorderLeavesDistinctPositions ==
  (req.op = "reorderSetlistSongs" /\ res.status = 200) =>
    \A r1, r2 \in setlistSongs :
      ( /\ r1.setlist_id = req.id /\ r2.setlist_id = req.id
        /\ r1.block_id = r2.block_id /\ r1.position = r2.position )
      => r1 = r2

\* C10: an add song request by a user who may update the songs, with a
\* song id that names no song, is answered 404, creates no entry and emits
\* no event; every entry references an existing song.
C10_UnknownSongRejected ==
  /\ [](\A r \in setlistSongs : r.song_id \in Song)
  /\ [][\A setlist \in setlists, position \in Positions, block_id \in BlockInputs :
          ( /\ req'.op = "addSongToSetlist"
            /\ req'.id = setlist.id
            /\ mayUpdateSongs(setlist, req'.user)
            /\ addSongToSetlist(req'.user, setlist.id, GhostSong, position, block_id) )
          => /\ res'.status = 404
             /\ setlistSongs' = setlistSongs
             /\ emitted' = <<>>]_vars

C10_witness ==
  /\ req.op = "addSongToSetlist"
  /\ res.status = 404 /\ res.msg = "Song not found"
  /\ \E setlist \in setlists : setlist.id = req.id /\ mayUpdateSongs(setlist, req.user)

\* C11: a remove request by an authorized user for a song that has k >= 1
\* entries in the setlist removes exactly one of them and leaves every
\* other entry as it was; for a song with no entry it answers 404, changes
\* no entry and emits no event.
C11_RemovesExactlyOne ==
  [][\A songId \in SongInputs :
       ( /\ req'.op = "removeSongFromSetlist"
         /\ removeSongFromSetlist(req'.user, req'.id, songId) )
       => LET matching == {r \in setlistSongs :
                             r.setlist_id = req'.id /\ r.song_id = songId}
          IN IF matching # {}
             THEN /\ res'.status = 200
                  /\ \E r \in matching : setlistSongs' = setlistSongs \ {r}
             ELSE /\ res'.status = 404
                  /\ setlistSongs' = setlistSongs
                  /\ emitted' = <<>>]_vars

\* a song with two entries has lost one of them
C11_witness ==
  /\ req.op = "removeSongFromSetlist"
  /\ res.status = 200
  /\ emitted # <<>>
  /\ \E r \in setlistSongs :
       r.setlist_id = req.id /\ r.song_id = emitted[1].payload.song_id

\* C12: sending the same reorder request a second time changes nothing:
\* from every table the handlers produce and for every list L, what a
\* reorder with L writes, written again, leaves every position and block as
\* the first application left them, and the listings of the setlist are the
\* same.
C12_ReorderTwiceIsOnce ==
  \A songs \in ListUpdateLists :
    LET once == committed(setlistSongs, songs, NoFault)
        twice == committed(once, songs, NoFault)
    IN /\ twice = once
       /\ \A id \in {r.setlist_id : r \in once} :
            findAllByPosition(twice, id) = findAllByPosition(once, id)

\* a reorder has answered with two entries, the later-created one first,
\* one of them in block k1, and some list would move an entry again
C12_witness ==
  /\ \E songs \in ListUpdateLists :
       committed(setlistSongs, songs, NoFault) # setlistSongs
  /\ req.op = "reorderSetlistSongs"
  /\ res.status = 200
  /\ Len(res.body) = 2
  /\ res.body[1].id > res.body[2].id
  /\ res.body[1].position < res.body[2].position
  /\ \E i \in 1..2 : res.body[i].block_id = "k1"

\* the place of row r in the listing body
placeOf(body, r) == CHOOSE i \in 1..Len(body) : body[i].id = r.id

\* the reorder list that gives a the position of b and b the position of a
swapOf(a, b, blockA, blockB) ==
  LET ua == [id |-> a.id, position |-> b.position, block_id |-> blockA]
      ub == [id |-> b.id, position |-> a.position, block_id |-> blockB]
  IN IF a.id < b.id THEN <<ua, ub>> ELSE <<ub, ua>>

\* C17: the listing follows the entry positions.  For two entries of one
\* block at positions p < q, after a reorder that gives q to the first and
\* p to the second every listing of the setlist has the second before the
\* first; and when a song is added at position 2 to a setlist whose only
\* entry is at position 1, every listing has the two in that order.
C17_ListingFollowsPositions ==
  /\ [](\A a, b \in setlistSongs :
          (a.setlist_id = b.setlist_id /\ a.block_id = b.block_id
             /\ a.position < b.position)
          => \A blockA, blockB \in ListBlocks :
               \A body \in findAllByPosition(
                              committed(setlistSongs,
                                        swapOf(a, b, blockA, blockB), NoFault),
                              a.setlist_id) :
                 placeOf(body, b) < placeOf(body, a))
  /\ [][( /\ req'.op = "addSongToSetlist"
          /\ res'.status = 201
          /\ res'.body[1].position = 2
          /\ \E r \in setlistSongs :
               /\ r.position = 1
               /\ {x \in setlistSongs : x.setlist_id = req'.id} = {r} )
        => \A body \in findAllByPosition(setlistSongs', req'.id) :
             /\ Len(body) = 2
             /\ body[1].position = 1
             /\ body[2] = res'.body[1]]_vars

\* a reorder has answered with two entries of block k1, the later-created
\* one first
C17_witness ==
  /\ req.op = "reorderSetlistSongs"
  /\ res.status = 200
  /\ Len(res.body) = 2
  /\ res.body[1].id = 2 /\ res.body[2].id = 1
  /\ res.body[1].position = 1 /\ res.body[2].position = 2
  /\ res.body[1].block_id = "k1" /\ res.body[2].block_id = "k1"

\* the event kind of each mutating handler
kindOf(op) ==
  CASE op = "createSetlist" -> "setlist:created"
    [] op = "updateSetlist" -> "setlist:updated"
    [] op = "deleteSetlist" -> "setlist:deleted"
    [] op = "addSongToSetlist" -> "setlist:song:added"
    [] op = "removeSongFromSetlist" -> "setlist:song:removed"
    [] op = "reorderSetlistSongs" -> "setlist:songs:reordered"
AllMutations ==
  {"createSetlist", "updateSetlist", "deleteSetlist", "addSongToSetlist",
   "removeSongFromSetlist", "reorderSetlistSongs"}
succeeded(status) == status \in {200, 201}

\* events of the last request that went to the room of this kind and key
sentTo(events, room, key) ==
  {i \in 1..Len(events) : events[i].room = room /\ events[i].key = key}

\* one event of the kind of op on the user's channel, one on the band's
\* channel when the setlist has a band, and no other event
oneEventEach(events, op, userId, bandId) ==
  /\ \A i \in 1..Len(events) : events[i].event = kindOf(op)
  /\ Cardinality(sentTo(events, "user", userId)) = 1
  /\ IF bandId # Null
     THEN Cardinality(sentTo(events, "band", bandId)) = 1 /\ Len(events) = 2
     ELSE Len(events) = 1

\* C13 (events): each successful mutation emits exactly one event of its
\* kind to the acting user's room and, iff the setlist has a band, one to
\* the band's room.
C13_OneEventPerChannel ==
  [][(req'.op \in AllMutations /\ succeeded(res'.status))
     => \E setlist \in findByPk(setlists \cup setlists', req'.id) :
          oneEventEach(emitted', req'.op, req'.user, setlist.band_id)]_vars

\* C13 (payload): the payload of each of those events is the state the
\* mutation left: the saved setlist (create, update), the created entry
\* (add), the listing of the setlist (reorder), the id of a setlist of which
\* nothing remains (delete), the setlist and song whose entries are what
\* the remove took away.
payloadIsResult(e, op, id) ==
  CASE op \in {"createSetlist", "updateSetlist"} ->
         e.payload \in findByPk(setlists', id)
    [] op = "deleteSetlist" ->
         /\ e.payload.id = id
         /\ findByPk(setlists', id) = {}
         /\ \A r \in blocks' \cup setlistSongs' : r.setlist_id # id
    [] op = "addSongToSetlist" ->
         /\ e.payload.setlist_id = id
         /\ setlistSongs' = setlistSongs \cup {e.payload.song}
         /\ e.payload.song \notin setlistSongs
    [] op = "reorderSetlistSongs" ->
         /\ e.payload.setlist_id = id
         /\ e.payload.songs \in findAllByPosition(setlistSongs', id)
    [] op = "removeSongFromSetlist" ->
         /\ e.payload.setlist_id = id
         /\ setlistSongs' =
              {r \in setlistSongs :
                 ~(r.setlist_id = id /\ r.song_id = e.payload.song_id)}
         /\ setlistSongs' # setlistSongs

\* C13: every successful mutation is followed by exactly one event of its
\* kind on the acting user's channel and, iff the setlist has a band, one on
\* the band's channel, and each event carries the state that results from
\* the mutation.
C13_EventCarriesResult ==
  [][(req'.op \in AllMutations /\ succeeded(res'.status))
     => /\ \E setlist \in findByPk(setlists \cup setlists', req'.id) :
             oneEventEach(emitted', req'.op, req'.user, setlist.band_id)
        /\ \A i \in 1..Len(emitted') :
             payloadIsResult(emitted'[i], req'.op, req'.id)]_vars

\* C14: when the socket server throws after a mutation was written, the
\* mutation stays written and the request is still answered with success.
\* Where nothing but the socket server throws (SpecNotify), no request that
\* changed the tables is answered with an error.
C14_NotifierFailureIsHarmless ==
  [][(req'.op \in AllMutations /\ db' # db) => succeeded(res'.status)]_vars

WriteFaults == {f \in Faults : f.kind = "write"}
SongOps == {"addSongToSetlist", "removeSongFromSetlist", "reorderSetlistSongs"}
denied(status) == status \in {400, 403, 404}

\* the tables that the lists of the clients in cs give when applied to rows
\* one whole list after the other, in any order
RECURSIVE outcomes(_, _)
outcomes(rows, cs) ==
  IF cs = {} THEN {rows}
  ELSE UNION {outcomes(applyUpdates(rows, tx[c].songs), cs \ {c}) : c \in cs}

\* the clients whose transaction has committed
committedClients ==
  {c \in Clients : tx[c].pc = "committed"
                    \/ (tx[c].pc = "done" /\ tx[c].status = 200)}

\* C15: a list request served while reorders are under way returns a
\* listing of a table in which each reorder is applied either in full or
\* not at all: the table after the committed reorders, one whole list after
\* the other, with nothing of the ones still in their transaction.
C15_ReadSeesWholeReorders ==
  [][getSetlistSongs("u1", "s1")
     => \E rows \in outcomes(ConcRows, committedClients) :
          res'.body \in findAllByPosition(rows, "s1")]_vars

\* the list was read while a transaction had written the first of its two
\* updates, one that changes the entry's position
C15_witness ==
  /\ req.op = "getSetlistSongs"
  /\ \E c \in Clients :
       /\ tx[c].pc = "run"
       /\ Len(tx[c].songs) = 2 /\ tx[c].at = 1
       /\ applyUpdates(setlistSongs, tx[c].held) # setlistSongs

\* C16: when two reorder requests on one setlist, served at the same time,
\* both succeed, the entries end as if one whole request had been applied
\* after the other, in one of the two orders.
C16_ReordersSerialize ==
  (\A c \in Clients : tx[c].pc = "done" /\ tx[c].status = 200)
    => setlistSongs \in outcomes(ConcRows, Clients)

\* both requests have succeeded, each with two updates, and the order in
\* which they are applied matters
C16_witness ==
  /\ \A c \in Clients :
       tx[c].pc = "done" /\ tx[c].status = 200 /\ Len(tx[c].songs) = 2
  /\ Cardinality(outcomes(ConcRows, Clients)) = 2

\* C18: when the store throws at a write inside the transaction of a
\* reorder (an entry update or the save of the setlist), the request is
\* answered with an error, no event goes out, and nothing of its list is in
\* the tables: they are as the committed reorders left them.
C18_FailedReorderWritesNothing ==
  /\ [](\A c \in Clients :
          (tx[c].pc = "done" /\ tx[c].status = 500)
            => setlistSongs \in outcomes(ConcRows, committedClients))
  /\ [][\A c \in Clients :
          reorderThrow(c)
            => (res'.status = 500 /\ emitted' = <<>> /\ UNCHANGED db)]_vars

\* a reorder has been answered 500 after the first of its two updates, one
\* that would have moved the entry
C18_witness ==
  /\ req.op = "reorderSetlistSongs"
  /\ res.status = 500
  /\ emitted = <<>>
  /\ \E c \in Clients :
       /\ tx[c].pc = "done" /\ tx[c].status = 500
       /\ Len(tx[c].songs) = 2 /\ tx[c].at = 1
       /\ applyUpdates(setlistSongs, tx[c].held) # setlistSongs

\* C19: add and remove write the entry row and the setlist's timestamp as
\* one unit: when the store throws at one of the two writes and the request
\* is answered with an error, the entries are what they were before.
C19_ErrorLeavesEntries ==
  [][\A fault \in WriteFaults :
       /\ \A song_id \in Song, position \in Positions :
            ( /\ req'.op = "addSongToSetlist"
              /\ addSongToSetlistUnder(req'.user, req'.id, song_id, position,
                                       Null, fault)
              /\ ~succeeded(res'.status) )
            => setlistSongs' = setlistSongs
       /\ \A songId \in Song :
            ( /\ req'.op = "removeSongFromSetlist"
              /\ removeSongFromSetlistUnder(req'.user, req'.id, songId, fault)
              /\ ~succeeded(res'.status) )
            => setlistSongs' = setlistSongs]_vars

\* the mutation an event of a songs request tells of is in the tables
persisted(e, op, id) ==
  CASE op = "addSongToSetlist" ->
         e.payload.song \in setlistSongs' \ setlistSongs
    [] op = "removeSongFromSetlist" ->
         \E r \in setlistSongs \ setlistSongs' :
           r.setlist_id = id /\ r.song_id = e.payload.song_id
    [] op = "reorderSetlistSongs" ->
         /\ e.payload.songs \in findAllByPosition(setlistSongs', id)
         /\ \E songs \in FaultUpdateLists :
              setlistSongs' = applyUpdates(setlistSongs, songs)

\* C20: in add, remove and reorder the access decision comes before any
\* write and the emits after the writes: a request that is denied or fails
\* validation (400, 403, 404) writes nothing and emits nothing, and every
\* event that goes out tells of a mutation that is in the tables.
C20_DecideWriteThenNotify ==
  [][(req'.op \in SongOps)
     => /\ denied(res'.status) => (UNCHANGED db /\ emitted' = <<>>)
        /\ \A i \in 1..Len(emitted') :
             persisted(emitted'[i], req'.op, req'.id)]_vars

\* the outsider u4 has been denied a reorder of s1, which has entries
C20_witness ==
  /\ req.op = "reorderSetlistSongs"
  /\ req.user = "u4"
  /\ res.status = 403
  /\ emitted = <<>>
  /\ \E r \in setlistSongs : r.setlist_id = req.id

\* C21: an add changes no entry but the one it creates and a remove changes
\* none of the entries that remain: no position or block of another entry is
\* rewritten, so gaps and positions that do not start at the lowest value
\* stay as they are.
C21_OthersKeepPositions ==
  [][/\ (req'.op = "addSongToSetlist")
        => /\ setlistSongs \subseteq setlistSongs'
           /\ \A r \in setlistSongs' \ setlistSongs :
                succeeded(res'.status) /\ r = res'.body[1]
     /\ (req'.op = "removeSongFromSetlist")
        => setlistSongs' \subseteq setlistSongs]_vars

\* a remove has left a single entry at position 2 and none below it
C21_witness ==
  /\ req.op = "removeSongFromSetlist"
  /\ res.status = 200
  /\ \E r \in setlistSongs :
       /\ r.setlist_id = req.id /\ r.position = 2
       /\ \A x \in setlistSongs : x.setlist_id = req.id => x = r

\* C24: an update of a reorder that gives no block leaves the entry it names
\* without a block, whatever block the entry was in; an entry that is named
\* by an update and is in the same block afterwards as before was given that
\* block by the update.
C24_OmittedBlockUnassigns ==
  \A songs \in ListUpdateLists :
    LET after == committed(setlistSongs, songs, NoFault)
    IN \A song \in items(songs) :
         \A r \in findByPk(setlistSongs, song.id) :
           \A x \in findByPk(after, song.id) :
             /\ (song.block_id = Null) => (x.block_id = Null)
             /\ (r.block_id # Null /\ x.block_id = r.block_id)
                  => (song.block_id = r.block_id)

\* a reorder has answered with an entry that has no block next to one that
\* is in block k1, which a further update without a block would unassign
C24_witness ==
  /\ req.op = "reorderSetlistSongs"
  /\ res.status = 200
  /\ \E i, j \in 1..Len(res.body) :
       /\ res.body[i].block_id = Null
       /\ res.body[j].block_id = "k1"
       /\ res.body[j] \in setlistSongs

\* C30: a create that passes the route's validation and names a band is
\* answered 404 when no such band exists and 403 when the actor is not one of
\* its members, and then no setlist is created and no event goes out; a
\* create without a name is answered 400 likewise.  A setlist is created only
\* for no band or a band the actor is a member of, and the one created row
\* has the actor as created_by and is public exactly when is_public was true.
memberOf(userId, band_id) ==
  \E m \in BandMember : m.band_id = band_id /\ m.user_id = userId
nothingCreated == setlists' = setlists /\ emitted' = <<>>
createdFor(userId, band_id, is_public) ==
  /\ band_id # Null => band_id \in Band /\ memberOf(userId, band_id)
  /\ \E row \in setlists' :
       /\ setlists' \ setlists = {row}
       /\ row.created_by = userId
       /\ row.is_public = (is_public = "true")
       /\ row.band_id = band_id
C30_CreateNeedsMembership ==
  [][(req'.op = "createSetlist") =>
       \A userId \in Users, name \in Names, band_id \in BandInputs,
          is_public \in PublicInputs :
         createSetlist(userId, name, band_id, is_public) =>
           /\ (name = Null) => res'.status = 400 /\ nothingCreated
           /\ (name # Null /\ band_id # Null /\ band_id \notin Band)
                => res'.status = 404 /\ nothingCreated
           /\ (name # Null /\ band_id \in Band /\ ~memberOf(userId, band_id))
                => res'.status = 403 /\ nothingCreated
           /\ (res'.status = 201) => createdFor(userId, band_id, is_public)
           /\ (setlists' # setlists) => res'.status = 201]_vars

\* C30 as stated: every create that names a band which does not exist or of
\* which the actor is no member is answered 404 or 403.
C30_CreateNeedsMembership_asStated ==
  [][(req'.op = "createSetlist") =>
       \A userId \in Users, name \in Names, band_id \in BandInputs,
          is_public \in PublicInputs :
         createSetlist(userId, name, band_id, is_public) =>
           /\ (band_id # Null /\ band_id \notin Band)
                => res'.status = 404 /\ nothingCreated
           /\ (band_id \in Band /\ ~memberOf(userId, band_id))
                => res'.status = 403 /\ nothingCreated
           /\ (res'.status = 201) => createdFor(userId, band_id, is_public)]_vars

\* the member u3 has created a public setlist of band b1
C30_witness ==
  /\ req.op = "createSetlist"
  /\ req.user = "u3"
  /\ res.status = 201
  /\ \E row \in setlists :
       /\ row.id = NewSetlistId /\ row.band_id = "b1"
       /\ row.created_by = "u3" /\ row.is_public
  /\ Len(emitted) = 2

\* C29: a delete that answers an error has removed nothing: the setlist, its
\* entries and its blocks are all as they were before the call.
C29_DeleteIsAllOrNothing ==
  [][(req'.op = "deleteSetlist" /\ res'.status >= 400)
       => UNCHANGED <<setlists, blocks, setlistSongs>>]_vars

\* a sequence of entries grouped by block, the blocks by ascending block
\* position, the entries of a block by ascending entry position
blockOrdered(body) ==
  /\ \A i, j \in 1..Len(body) : i < j => inBlockOrder(body[i], body[j])
  /\ \A i, j, k \in 1..Len(body) :
       (i < j /\ j < k /\ body[i].block_id = body[k].block_id)
         => body[j].block_id = body[i].block_id
\* the orders in which the entries of setlist id can be put
orders(id) ==
  LET rows == {r \in setlistSongs : r.setlist_id = id}
      n == Cardinality(rows)
  IN {s \in [1..n -> rows] : \A i, j \in 1..n : i # j => s[i] # s[j]}

\* C23: what the PDF export hands to the PDF service is the entries of the
\* setlist ordered by block position and then entry position, and what the
\* Spotify export hands to the playlist service is the Spotify ids of the
\* entries in that order, those without an id left out.
C23_ExportsInListingOrder ==
  /\ (req.op = "exportSetlistToPDF" /\ res.status = 200)
       => (res.body \in orders(req.id) /\ blockOrdered(res.body))
  /\ (req.op = "exportSetlistToSpotify" /\ res.status = 200)
       => \E s \in orders(req.id) : blockOrdered(s) /\ res.body = spotifyIds(s)

\* C22: in every state, the states between the statements of a delete and
\* of adds under way included, every entry and every block belongs to a
\* setlist that is in the setlists table.
C22_NoOrphans ==
  /\ \A r \in setlistSongs : findByPk(setlists, r.setlist_id) # {}
  /\ \A b \in blocks : findByPk(setlists, b.setlist_id) # {}

\* the rows of setlist id in the server's table
rowsOf(id) == {r \in setlistSongs : r.setlist_id = id}
\* the step in which the response of the thunk in slot c is reduced
settles(c) == inflight[c].pc \in {"served", "failed"} /\ inflight'[c].pc = "idle"

\* C25: when the fulfilled action of a remove is reduced in a store that held
\* the entries of the setlist as they were before the remove, the store then
\* holds exactly the entries the server still has for the setlist, each once.
C25_RemoveKeepsStoreInSync ==
  [][\A c \in Clients :
       LET r == inflight[c]
           rows == rowsOf(r.arg.id)
       IN ( /\ r.thunk = "removeSongFromSetlist"
            /\ settles(c) /\ resolves(r)
            /\ Len(state.setlistSongs) = Cardinality(rows) + 1
            /\ \E x \in items(state.setlistSongs) \ rows :
                 /\ x.song_id = r.arg.song_id
                 /\ items(state.setlistSongs) = rows \cup {x} )
          => /\ items(state'.setlistSongs) = rows
             /\ Len(state'.setlistSongs) = Cardinality(rows)]_vars

\* C26: whenever the store has a current setlist, every entry in its
\* setlistSongs is an entry of that setlist.
C26_SongsOfCurrentSetlist ==
  (state.currentSetlist # <<>>) =>
    \A i \in 1..Len(state.setlistSongs) :
      state.setlistSongs[i].setlist_id = state.currentSetlist[1].id

\* C27: isLoading is true in every state in which a dispatched thunk has
\* not settled yet.
C27_LoadingWhilePending ==
  (\E c \in Clients : inflight[c].pc # "idle") => state.isLoading

\* C28: the rejected action of every thunk leaves setlists, currentSetlist
\* and setlistSongs as they were, sets error to the value the thunk rejected
\* with and isLoading to false; the pending action of every thunk sets error
\* to null.
C28_RejectedKeepsData ==
  [][\A c \in Clients :
       /\ (settles(c) /\ ~resolves(inflight[c]))
            => /\ state'.setlists = state.setlists
               /\ state'.currentSetlist = state.currentSetlist
               /\ state'.setlistSongs = state.setlistSongs
               /\ state'.error = rejectWithValue(inflight[c])
               /\ state'.error # Null
               /\ ~state'.isLoading
       /\ (inflight[c].pc = "idle" /\ inflight'[c].pc = "pending")
            => state'.error = Null]_vars

\* the remove of a song that s1 does not hold was rejected with the server's
\* message while the store held a current setlist and was loading
C28_witness ==
  /\ inflight["c1"].pc = "idle"
  /\ req.op = "removeSongFromSetlist"
  /\ res.status = 404
  /\ state.error = res.msg
  /\ ~state.isLoading
  /\ state.currentSetlist # <<>>
  /\ state.setlists # <<>>

====
